---------------------------- MODULE Spec2Model ----------------------------
(***************************************************************************)
(* ButterPaper icon asset pipeline: the ICO container builder              *)
(* (scripts/generate_app_icons.py) and the icon validator                  *)
(* (scripts/validate_app_icons.py): ICO directory reader, PNG scanline     *)
(* reconstruction, alpha coverage analysis and the validation main().      *)
(*                                                                         *)
(* Files are sequences of bytes (0..255).  Each script is a sequential     *)
(* program; its position is a pc variable.  Seven specifications share    *)
(* the module, each driving one part of the pipeline and leaving the other *)
(* parts idle:                                                             *)
(*   SpecIco    build_ico followed by parse_ico_sizes on the written file  *)
(*   SpecReader parse_ico_sizes on ICO files of any content                *)
(*   SpecDim    png_dimensions                                             *)
(*   SpecVal    main() of the validator                                    *)
(*   SpecPaeth  paeth_predictor                                            *)
(*   SpecPng    decode_png_rgba_alpha_bounds from the inflated payload on  *)
(*   SpecFile   decode_png_rgba_alpha_bounds from the bytes of the file on *)
(***************************************************************************)
EXTENDS Integers, Sequences, FiniteSets, TLC

VARIABLES
    \* ---- build_ico (generate_app_icons.py) ----
    png_paths,       \* the PNG files given to build_ico, as their bytes
    ico_file,        \* the target .ico on disk: [exists, bytes]
    bpc,             \* build_ico: "idle", "loop", "done", "failed"
    bidx,            \* number of images the loop has processed
    entries,         \* bytearray of directory entries
    offset,          \* running payload offset
    payload_blob,    \* bytearray of concatenated payloads
    build_error,     \* "" or the ValueError raised
    \* ---- parse_ico_sizes (validate_app_icons.py) ----
    rpc,             \* "idle", "done", "failed"
    data,            \* the bytes parse_ico_sizes read
    sizes,           \* the list it returned
    read_error,      \* "" or the failure it reported
    \* ---- paeth_predictor (validate_app_icons.py) ----
    paeth_pc,        \* "call", "returned"
    paeth_args,      \* the arguments <<a, b, c>>
    paeth_result,    \* the value returned
    \* ---- decode_png_rgba_alpha_bounds (validate_app_icons.py) ----
    png_pc,          \* "idle", "open", "chunks", "header", "inflate", "inflated",
                     \* "rows", "bounds", "done", "failed" (fail() was called),
                     \* "raised" (an exception left the function)
    width,           \* IHDR width
    height,          \* IHDR height
    color_type,      \* IHDR color type
    payload,         \* the inflated IDAT stream
    pos,             \* read position in payload
    rows,            \* the reconstructed rows
    prev_row,        \* the previous reconstructed row
    bbox,            \* [min_x, min_y, max_x, max_y] of the alpha scan
    png_result,      \* [width, height, coverage_w, coverage_h]; a coverage is
                     \* the fraction [num, den]
    png_error,       \* "" or the failure reported
    \* ---- main (validate_app_icons.py) ----
    val_pc,          \* "idle", "start", "ico", "png", "dims", "coverage", "report", "exit"
    present,         \* the required files that exist in icons_dir
    threshold,       \* args.coverage_threshold, the fraction [num, den]
    ico_sizes,       \* sorted(parse_ico_sizes(...))
    exit_status,     \* -1 while main runs, then the process exit status
    message,         \* what fail() printed: [kind, paths]
    calls,           \* history: the decoders main has invoked, in order
    checks,          \* history: the checks main has evaluated, in order
    \* ---- png_dimensions (generate_app_icons.py) ----
    dim_pc,          \* "idle", "call", "returned", "raised"
    dim_data,        \* the bytes png_dimensions read
    dim_result,      \* the pair <<width, height>> returned
    \* ---- decode_png_rgba_alpha_bounds, lines 59-99 ----
    png_data,        \* the bytes of the file
    cursor,          \* read position in png_data
    ihdr_seen,       \* width, height, bit_depth, color_type are not None
    bit_depth,       \* IHDR bit depth
    idat_chunks      \* the IDAT payloads collected, in the order read

icoVars == <<png_paths, ico_file, bpc, bidx, entries, offset, payload_blob,
             build_error, rpc, data, sizes, read_error>>

paethVars == <<paeth_pc, paeth_args, paeth_result>>

pngVars == <<png_pc, width, height, color_type, payload, pos, rows, prev_row,
             bbox, png_result, png_error>>

valVars == <<val_pc, present, threshold, ico_sizes, exit_status, message, calls,
             checks>>

dimVars == <<dim_pc, dim_data, dim_result>>

fileVars == <<png_data, cursor, ihdr_seen, bit_depth, idat_chunks>>

vars == <<icoVars, paethVars, pngVars, valVars, dimVars, fileVars>>

\* the variables of build_ico, and those of the PNG decoder's loops
buildVars == <<png_paths, ico_file, bpc, bidx, entries, offset, payload_blob,
               build_error>>
scanlineVars == <<color_type, payload, pos, rows, prev_row>>

\* what an action of one part leaves alone
otherThanIco == <<paethVars, pngVars, valVars, dimVars, fileVars>>
otherThanPaeth == <<icoVars, pngVars, valVars, dimVars, fileVars>>
otherThanPng == <<icoVars, paethVars, valVars, dimVars, fileVars>>
otherThanDim == <<icoVars, paethVars, pngVars, valVars, fileVars>>
otherThanFile == <<icoVars, paethVars, valVars, dimVars>>

----------------------------------------------------------------------------
(* Bounds of the model *)

\* longest list of PNG files handed to build_ico
MaxPngs == 3

\* paeth_predictor is applied to the bytes within PaethSpan of either end of
\* the byte range, and to the multiples of 17 between them
PaethSpan == 20

\* largest width, height and pixel count of the images whose scanlines are
\* enumerated byte by byte
MaxWidth == 4
MaxHeight == 2
MaxPixels == 4

\* directory entries of the ICO files parse_ico_sizes is run on by itself
MaxDirEntries == 2

----------------------------------------------------------------------------
(* Byte-level helpers: struct.pack / struct.unpack formats *)

Range(s) == {s[i] : i \in 1..Len(s)}

\* struct.pack("<H", n)
PackLE16(n) == <<n % 256, (n \div 256) % 256>>

\* struct.pack("<I", n)
PackLE32(n) == <<n % 256, (n \div 256) % 256, (n \div 65536) % 256,
                 (n \div 16777216) % 256>>

\* struct.pack(">I", n)
PackBE32(n) == <<(n \div 16777216) % 256, (n \div 65536) % 256,
                 (n \div 256) % 256, n % 256>>

\* struct.unpack("<H", ...) of the two bytes at 0-based position p of s
UnpackLE16(s, p) == s[p + 1] + 256 * s[p + 2]

\* struct.unpack("<I", ...) of the four bytes at 0-based position p of s
UnpackLE32(s, p) == s[p + 1] + 256 * s[p + 2] + 65536 * s[p + 3]
                    + 16777216 * s[p + 4]

\* struct.unpack(">I", ...) of the four bytes at 0-based position p of s
UnpackBE32(s, p) == 16777216 * s[p + 1] + 65536 * s[p + 2] + 256 * s[p + 3]
                    + s[p + 4]

\* Python slice s[lo:hi] (0-based, clipped to the length of s)
Slice(s, lo, hi) ==
    LET h == IF hi > Len(s) THEN Len(s) ELSE hi
    IN  IF lo >= h THEN <<>> ELSE SubSeq(s, lo + 1, h)

----------------------------------------------------------------------------
(* generate_app_icons.py: png_dimensions *)

PNG_SIGNATURE == <<137, 80, 78, 71, 13, 10, 26, 10>>

\* the chunk types b"IHDR", b"IDAT", b"IEND"
IHDR == <<73, 72, 68, 82>>
IDAT == <<73, 68, 65, 84>>
IEND == <<73, 69, 78, 68>>

\* png_dimensions: ok = FALSE stands for the ValueError
png_dimensions(bytes) ==
    IF Len(bytes) < 24 \/ Slice(bytes, 0, 8) # PNG_SIGNATURE
    THEN [ok |-> FALSE, width |-> 0, height |-> 0]
    ELSE [ok |-> TRUE, width |-> UnpackBE32(bytes, 16),
          height |-> UnpackBE32(bytes, 20)]

----------------------------------------------------------------------------
(* Input files of build_ico *)

\* A PNG file as far as build_ico looks at it: signature, the IHDR length and
\* type, width and height, then the rest of the file.
PngFile(w, h, rest) ==
    PNG_SIGNATURE \o <<0, 0, 0, 13, 73, 72, 68, 82>> \o PackBE32(w)
    \o PackBE32(h) \o rest

PngLibrary ==
    { PngFile(16, 16, <<8, 6>>),
      PngFile(1, 1, <<8>>),
      PngFile(255, 255, <<>>),
      PngFile(256, 256, <<8, 6, 0>>),
      PngFile(0, 0, <<>>),
      PngFile(48, 32, <<>>),
      PngFile(257, 257, <<>>),
      PngFile(300, 16, <<>>),
      SubSeq(PngFile(16, 16, <<>>), 1, 23),
      <<0>> \o Tail(PngFile(16, 16, <<>>)) }

RECURSIVE SeqsUpTo(_, _)
\* all sequences over S of length at most n
SeqsUpTo(S, n) ==
    IF n = 0 THEN {<<>>}
    ELSE LET shorter == SeqsUpTo(S, n - 1)
         IN  shorter \cup {Append(s, x) : s \in {t \in shorter : Len(t) = n - 1},
                                           x \in S}

NoFile == [exists |-> FALSE, bytes |-> <<>>]

\* what may already be at the target path before build_ico runs
OldIcoFiles ==
    { NoFile,
      [exists |-> TRUE, bytes |-> <<0, 0, 1, 0, 1, 0,
                                    0, 0, 0, 0, 1, 0, 32, 0, 0, 0, 0, 0, 22, 0, 0, 0>>],
      [exists |-> TRUE, bytes |-> <<0, 0, 2, 0, 0, 0>>] }

----------------------------------------------------------------------------
(* generate_app_icons.py: build_ico *)

\* mutant of entry_dimension: the 256 sentinel is forgotten
entry_dimension_raw(dim) == dim

\* lines 65-66: the directory byte of a width or height
entry_dimension(dim) == IF dim = 256 THEN 0 ELSE dim

\* lines 68-80: struct.pack("<BBBBHHII", ...)
pack_entry(entry_width, entry_height, length, off) ==
    <<entry_width, entry_height, 0, 0>> \o PackLE16(1) \o PackLE16(32)
    \o PackLE32(length) \o PackLE32(off)

\* mutant of first_offset: the 6-byte header is left out
first_offset_no_header(n) == 16 * n

\* line 55: the offset of the first payload
first_offset(n) == 6 + (16 * n)

\* line 84: struct.pack("<HHH", 0, 1, count)
pack_header(count) == PackLE16(0) \o PackLE16(1) \o PackLE16(count)

\* mutant of BuildStart: the target is opened for writing before the loop
BuildStartTruncating ==
    /\ bpc = "idle"
    /\ bpc' = "loop"
    /\ bidx' = 0
    /\ entries' = <<>>
    /\ offset' = 6 + (16 * Len(png_paths))
    /\ payload_blob' = <<>>
    /\ ico_file' = [exists |-> TRUE, bytes |-> <<>>]
    /\ UNCHANGED <<png_paths, build_error, rpc, data, sizes, read_error>>
    /\ UNCHANGED otherThanIco

\* lines 52-56: read the payloads and set up the buffers
BuildStart ==
    /\ bpc = "idle"
    /\ bpc' = "loop"
    /\ bidx' = 0
    /\ entries' = <<>>
    /\ offset' = first_offset(Len(png_paths))
    /\ payload_blob' = <<>>
    /\ UNCHANGED <<png_paths, ico_file, build_error, rpc, data, sizes, read_error>>
    /\ UNCHANGED otherThanIco

\* lines 58-82: one iteration of the loop over the images
BuildStep ==
    /\ bpc = "loop"
    /\ bidx < Len(png_paths)
    /\ LET image_payload == png_paths[bidx + 1]
           dims == png_dimensions(image_payload)
       IN  IF ~dims.ok
           THEN /\ bpc' = "failed"
                /\ build_error' = "not a valid PNG"
                /\ UNCHANGED <<bidx, entries, offset, payload_blob>>
           ELSE IF dims.width # dims.height
           THEN /\ bpc' = "failed"
                /\ build_error' = "not square"
                /\ UNCHANGED <<bidx, entries, offset, payload_blob>>
           ELSE IF dims.width > 256 \/ dims.height > 256
           THEN /\ bpc' = "failed"
                /\ build_error' = "exceeds ICO max size"
                /\ UNCHANGED <<bidx, entries, offset, payload_blob>>
           ELSE /\ entries' = entries \o pack_entry(entry_dimension(dims.width),
                                                    entry_dimension(dims.height),
                                                    Len(image_payload), offset)
                /\ payload_blob' = payload_blob \o image_payload
                /\ offset' = offset + Len(image_payload)
                /\ bidx' = bidx + 1
                /\ UNCHANGED <<bpc, build_error>>
    /\ UNCHANGED <<png_paths, ico_file, rpc, data, sizes, read_error>>
    /\ UNCHANGED otherThanIco

\* lines 84-85: the header, and the one write of the file
BuildWrite ==
    /\ bpc = "loop"
    /\ bidx = Len(png_paths)
    /\ ico_file' = [exists |-> TRUE,
                    bytes |-> pack_header(Len(png_paths)) \o entries \o payload_blob]
    /\ bpc' = "done"
    /\ UNCHANGED <<png_paths, bidx, entries, offset, payload_blob, build_error,
                   rpc, data, sizes, read_error>>
    /\ UNCHANGED otherThanIco

----------------------------------------------------------------------------
(* validate_app_icons.py: parse_ico_sizes *)

\* lines 39-40: a directory byte resolved to a size
resolve_dimension(byte) == IF byte = 0 THEN 256 ELSE byte

RECURSIVE parse_entries(_, _, _)
\* lines 35-44: the loop over the directory, from entry idx on
parse_entries(bytes, count, idx) ==
    IF idx >= count THEN [ok |-> TRUE, sizes |-> <<>>, error |-> ""]
    ELSE LET off == 6 + (idx * 16)
             entry_width == resolve_dimension(bytes[off + 1])
             entry_height == resolve_dimension(bytes[off + 2])
         IN  IF entry_width # entry_height
             THEN [ok |-> FALSE, sizes |-> <<>>, error |-> "entry is not square"]
             ELSE LET rest == parse_entries(bytes, count, idx + 1)
                  IN  IF rest.ok
                      THEN [rest EXCEPT !.sizes = <<entry_width>> \o rest.sizes]
                      ELSE rest

\* mutant of parse_ico_sizes: the header is rejected only when both fields
\* are wrong
parse_ico_sizes_both_fields(bytes) ==
    IF Len(bytes) < 6
    THEN [ok |-> FALSE, sizes |-> <<>>, error |-> "ICO file too short"]
    ELSE LET reserved == UnpackLE16(bytes, 0)
             kind == UnpackLE16(bytes, 2)
             count == UnpackLE16(bytes, 4)
         IN  IF reserved # 0 /\ kind # 1
             THEN [ok |-> FALSE, sizes |-> <<>>, error |-> "Invalid ICO header"]
             ELSE IF Len(bytes) < 6 + (count * 16)
             THEN [ok |-> FALSE, sizes |-> <<>>, error |-> "ICO directory truncated"]
             ELSE parse_entries(bytes, count, 0)

\* lines 22-44
parse_ico_sizes(bytes) ==
    IF Len(bytes) < 6
    THEN [ok |-> FALSE, sizes |-> <<>>, error |-> "ICO file too short"]
    ELSE LET reserved == UnpackLE16(bytes, 0)
             kind == UnpackLE16(bytes, 2)
             count == UnpackLE16(bytes, 4)
         IN  IF reserved # 0 \/ kind # 1
             THEN [ok |-> FALSE, sizes |-> <<>>, error |-> "Invalid ICO header"]
             ELSE IF Len(bytes) < 6 + (count * 16)
             THEN [ok |-> FALSE, sizes |-> <<>>, error |-> "ICO directory truncated"]
             ELSE parse_entries(bytes, count, 0)

\* parse_ico_sizes(path) on the file now at the target path
ParseIco ==
    /\ ico_file.exists
    /\ LET r == parse_ico_sizes(ico_file.bytes)
       IN  /\ data' = ico_file.bytes
           /\ rpc' = IF r.ok THEN "done" ELSE "failed"
           /\ sizes' = r.sizes
           /\ read_error' = r.error
    /\ UNCHANGED <<png_paths, ico_file, bpc, bidx, entries, offset, payload_blob,
                   build_error>>
    /\ UNCHANGED otherThanIco

----------------------------------------------------------------------------
(* The parts of the pipeline that a specification does not run *)

IdleIco ==
    /\ png_paths = <<>>
    /\ ico_file = NoFile
    /\ bpc = "idle"
    /\ bidx = 0
    /\ entries = <<>>
    /\ offset = 0
    /\ payload_blob = <<>>
    /\ build_error = ""
    /\ rpc = "idle"
    /\ data = <<>>
    /\ sizes = <<>>
    /\ read_error = ""

IdlePaeth == paeth_pc = "idle" /\ paeth_args = <<0, 0, 0>> /\ paeth_result = 0

IdleDim == dim_pc = "idle" /\ dim_data = <<>> /\ dim_result = <<0, 0>>

IdleFile ==
    /\ png_data = <<>>
    /\ cursor = 0
    /\ ihdr_seen = FALSE
    /\ bit_depth = 0
    /\ idat_chunks = <<>>

NoBox == [min_x |-> 0, min_y |-> 0, max_x |-> 0, max_y |-> 0]

NoResult == [width |-> 0, height |-> 0,
             coverage_w |-> [num |-> 0, den |-> 1],
             coverage_h |-> [num |-> 0, den |-> 1]]

IdlePng ==
    /\ png_pc = "idle"
    /\ width = 0
    /\ height = 0
    /\ color_type = 0
    /\ payload = <<>>
    /\ pos = 0
    /\ rows = <<>>
    /\ prev_row = <<>>
    /\ bbox = NoBox
    /\ png_result = NoResult
    /\ png_error = ""

NoMessage == [kind |-> "", paths |-> <<>>]

IdleVal ==
    /\ val_pc = "idle"
    /\ present = {}
    /\ threshold = [num |-> 0, den |-> 1]
    /\ ico_sizes = <<>>
    /\ exit_status = -1
    /\ message = NoMessage
    /\ calls = <<>>
    /\ checks = <<>>

----------------------------------------------------------------------------
(* SpecIco: build_ico on a list of files, parse_ico_sizes on the target *)

InitIco ==
    /\ png_paths \in SeqsUpTo(PngLibrary, MaxPngs)
    /\ ico_file \in OldIcoFiles
    /\ bpc = "idle"
    /\ bidx = 0
    /\ entries = <<>>
    /\ offset = 0
    /\ payload_blob = <<>>
    /\ build_error = ""
    /\ rpc = "idle"
    /\ data = <<>>
    /\ sizes = <<>>
    /\ read_error = ""

NextIco == BuildStart \/ BuildStep \/ BuildWrite \/ ParseIco

IcoInit == InitIco /\ IdlePaeth /\ IdlePng /\ IdleVal /\ IdleDim /\ IdleFile

SpecIco == IcoInit /\ [][NextIco]_vars

----------------------------------------------------------------------------
(* Properties of build_ico and parse_ico_sizes *)

\* the dimensions png_dimensions reads from the k-th input file
PngDims(k) == png_dimensions(png_paths[k])

\* parse_ico_sizes has run on the file build_ico wrote
ReadBackBuilt == bpc = "done" /\ rpc # "idle" /\ data = ico_file.bytes

\* 0-based position of directory entry k (k = 1..N) in an ICO file
EntryPos(k) == 6 + 16 * (k - 1)

\* C1: ICO round trip.  Whenever build_ico accepted the list of N files and
\* parse_ico_sizes has read the file it wrote, the reader succeeded, returned
\* exactly N sizes, and these sizes are the widths of the N input files.
C1_RoundTrip ==
    ReadBackBuilt =>
        /\ rpc = "done"
        /\ Len(sizes) = Len(png_paths)
        /\ Range(sizes) = {PngDims(k).width : k \in 1..Len(png_paths)}

\* C2: zero-means-256.  In the file build_ico wrote, the width and height
\* bytes of entry k are the width and height of file k, except that 256 is
\* written as byte 0; and every size parse_ico_sizes returned is 256 where
\* the directory byte it read is 0 and the byte itself otherwise.
C2_ZeroMeans256 ==
    /\ bpc = "done" =>
         \A k \in 1..Len(png_paths) :
            LET wb == ico_file.bytes[EntryPos(k) + 1]
                hb == ico_file.bytes[EntryPos(k) + 2]
            IN  /\ PngDims(k).width = 256 => wb = 0
                /\ PngDims(k).height = 256 => hb = 0
                /\ PngDims(k).width # 256 => wb = PngDims(k).width
                /\ PngDims(k).height # 256 => hb = PngDims(k).height
    /\ rpc = "done" =>
         \A k \in 1..Len(sizes) :
            LET b == data[EntryPos(k) + 1]
            IN  /\ b = 0 => sizes[k] = 256
                /\ b # 0 => sizes[k] = b

\* C2 witness: a 256x256 and a 16x16 image were built into one file and the
\* reader returned 256 for the byte 0 and 16 for the byte 16.
C2_Witness ==
    /\ ReadBackBuilt
    /\ rpc = "done"
    /\ \E j, k \in 1..Len(sizes) :
          /\ PngDims(j).width = 256 /\ data[EntryPos(j) + 1] = 0 /\ sizes[j] = 256
          /\ PngDims(k).width = 16 /\ data[EntryPos(k) + 1] = 16 /\ sizes[k] = 16

\* sum of the lengths of the first k input files
RECURSIVE PayloadBytesBefore(_)
PayloadBytesBefore(k) ==
    IF k <= 1 THEN 0 ELSE PayloadBytesBefore(k - 1) + Len(png_paths[k - 1])

\* C3: ICO layout.  The file build_ico wrote is the 6-byte header (reserved 0,
\* type 1, count N), N 16-byte entries and the payloads in input order; entry
\* 1 declares offset 6 + 16 N, entry k + 1 declares offset(k) + length(k),
\* each declared length is the payload's length, the bytes at the declared
\* region are the payload, and the last region ends at the end of the file.
C3_Layout ==
    bpc = "done" =>
        LET out == ico_file.bytes
            N == Len(png_paths)
            DeclLen(k) == UnpackLE32(out, EntryPos(k) + 8)
            DeclOff(k) == UnpackLE32(out, EntryPos(k) + 12)
        IN  /\ Len(out) >= 6 + 16 * N
            /\ SubSeq(out, 1, 6) = <<0, 0, 1, 0, N % 256, N \div 256>>
            /\ \A k \in 1..N :
                  /\ SubSeq(out, EntryPos(k) + 3, EntryPos(k) + 8)
                        = <<0, 0, 1, 0, 32, 0>>
                  /\ DeclLen(k) = Len(png_paths[k])
                  /\ DeclOff(k) = IF k = 1 THEN 6 + 16 * N
                                  ELSE DeclOff(k - 1) + DeclLen(k - 1)
                  /\ DeclOff(k) + DeclLen(k) <= Len(out)
                  /\ SubSeq(out, DeclOff(k) + 1, DeclOff(k) + DeclLen(k))
                        = png_paths[k]
            /\ Len(out) = 6 + 16 * N + PayloadBytesBefore(N + 1)
            /\ N > 0 => DeclOff(N) + DeclLen(N) = Len(out)

\* C3 witness: a file built from three payloads, not all of one length.
C3_Witness ==
    /\ bpc = "done"
    /\ Len(png_paths) = 3
    /\ Len(png_paths[1]) # Len(png_paths[2])
    /\ Len(ico_file.bytes) > 6 + 48

\* an input file build_ico must reject: not square, or larger than 256
Offending(k) ==
    /\ PngDims(k).ok
    /\ \/ PngDims(k).width # PngDims(k).height
       \/ PngDims(k).width > 256
       \/ PngDims(k).height > 256

\* C4: all-or-nothing.  With a non-square or oversized file in the list,
\* build_ico never completes, its loop never gets past the first such file,
\* and no step changes the target file.
C4_AllOrNothing ==
    /\ [](\A k \in 1..Len(png_paths) :
            Offending(k) => /\ bpc # "done"
                            /\ bidx < k)
    /\ [][(\E k \in 1..Len(png_paths) : Offending(k)) => ico_file' = ico_file]_vars

\* C4 witness: build_ico failed on a non-square file after it had processed
\* an earlier one, and the file that was at the target is still there.
C4_Witness ==
    /\ bpc = "failed"
    /\ build_error = "not square"
    /\ bidx >= 1
    /\ ico_file.exists
    /\ ico_file \in OldIcoFiles

----------------------------------------------------------------------------
(* SpecDim: png_dimensions on files read from disk *)

\* the chunk-type fields the files carry: IHDR, IDAT, IEND, and four zero bytes
FirstChunkTypes == {IHDR, IDAT, IEND, <<0, 0, 0, 0>>}

\* the dimension fields the files carry
DimValues == {0, 1, 16, 300}

\* every prefix of a byte string, the empty one and the whole included
Prefixes(bytes) == {SubSeq(bytes, 1, n) : n \in 0..Len(bytes)}

\* a file of one chunk after its first eight bytes: length 13, the chunk type,
\* two 32-bit fields, five more bytes and a 4-byte CRC field
OneChunkFile(first8, type, w, h) ==
    first8 \o <<0, 0, 0, 13>> \o type \o PackBE32(w) \o PackBE32(h)
    \o <<8, 6, 0, 0, 0>> \o <<0, 0, 0, 0>>

\* the files png_dimensions is run on: one-chunk files with and without the
\* signature, and every prefix of the square ones
DimFiles ==
    UNION {{OneChunkFile(PNG_SIGNATURE, t, w, h) : w \in DimValues, h \in DimValues}
               : t \in FirstChunkTypes}
    \cup UNION {Prefixes(OneChunkFile(PNG_SIGNATURE, t, 16, 16)) : t \in FirstChunkTypes}
    \cup {OneChunkFile(<<0>> \o Tail(PNG_SIGNATURE), IHDR, 16, 16),
          OneChunkFile(<<137, 80, 78, 71, 13, 10, 26, 11>>, IHDR, 16, 16)}

InitDim ==
    /\ dim_pc = "call"
    /\ dim_data \in DimFiles
    /\ dim_result = <<0, 0>>

\* generate_app_icons.py lines 43-48: one call of png_dimensions
PngDimensions ==
    /\ dim_pc = "call"
    /\ LET r == png_dimensions(dim_data)
       IN  /\ dim_pc' = IF r.ok THEN "returned" ELSE "raised"
           /\ dim_result' = IF r.ok THEN <<r.width, r.height>> ELSE dim_result
    /\ UNCHANGED dim_data
    /\ UNCHANGED otherThanDim

NextDim == PngDimensions

DimInit == InitDim /\ IdleIco /\ IdlePaeth /\ IdlePng /\ IdleVal /\ IdleFile

SpecDim == DimInit /\ [][NextDim]_vars

\* the file begins with the signature, has 24 bytes or more, and the type
\* field of its first chunk (bytes 12..15) is IHDR
HeaderWellFormed ==
    /\ Len(dim_data) >= 24
    /\ Slice(dim_data, 0, 8) = PNG_SIGNATURE
    /\ Slice(dim_data, 12, 16) = IHDR

\* C12: PNG header reader precondition.  png_dimensions returns a pair only
\* for data that begins with the signature, is at least 24 bytes long and
\* whose first chunk is of type IHDR, the pair being the big-endian 32-bit
\* integers at bytes 16..19 and 20..23; on every other input it raises.
C12_HeaderPrecondition ==
    /\ dim_pc = "returned" =>
          /\ HeaderWellFormed
          /\ dim_result = <<UnpackBE32(dim_data, 16), UnpackBE32(dim_data, 20)>>
    /\ dim_pc = "raised" => ~HeaderWellFormed

----------------------------------------------------------------------------
(* validate_app_icons.py: paeth_predictor *)

\* Python abs()
Abs(x) == IF x < 0 THEN -x ELSE x

\* mutant of paeth_predictor: a tie between b and c goes to c
paeth_predictor_c_before_b(a, b, c) ==
    LET p == a + b - c
        pa == Abs(p - a)
        pb == Abs(p - b)
        pc == Abs(p - c)
    IN  IF pa <= pb /\ pa <= pc THEN a
        ELSE IF pb < pc THEN b
        ELSE c

\* lines 47-56
paeth_predictor(a, b, c) ==
    LET p == a + b - c
        pa == Abs(p - a)
        pb == Abs(p - b)
        pc == Abs(p - c)
    IN  IF pa <= pb /\ pa <= pc THEN a
        ELSE IF pb <= pc THEN b
        ELSE c

\* the bytes paeth_predictor is applied to
PaethBytes ==
    (0..PaethSpan) \cup ((255 - PaethSpan)..255) \cup {17 * k : k \in 0..15}

InitPaeth ==
    /\ paeth_pc = "call"
    /\ paeth_args \in PaethBytes \X PaethBytes \X PaethBytes
    /\ paeth_result = 0

\* the call paeth_predictor(a, b, c)
PaethCall ==
    /\ paeth_pc = "call"
    /\ paeth_result' = paeth_predictor(paeth_args[1], paeth_args[2], paeth_args[3])
    /\ paeth_pc' = "returned"
    /\ UNCHANGED paeth_args
    /\ UNCHANGED otherThanPaeth

NextPaeth == PaethCall

PaethInit == InitPaeth /\ IdleIco /\ IdlePng /\ IdleVal /\ IdleDim /\ IdleFile

SpecPaeth == PaethInit /\ [][NextPaeth]_vars

\* distance between two integers
Dist(x, y) == IF x >= y THEN x - y ELSE y - x

\* C8: Paeth predictor.  With p = a + b - c the value returned is a when a is
\* at least as near to p as b and as c, else b when b is at least as near as
\* c, else c; it is always one of a, b, c; (0,0,0) gives 0 and (10,20,15)
\* gives 15.
C8_Paeth ==
    paeth_pc = "returned" =>
        LET a == paeth_args[1]
            b == paeth_args[2]
            c == paeth_args[3]
            p == a + b - c
            aNearest == Dist(p, a) <= Dist(p, b) /\ Dist(p, a) <= Dist(p, c)
        IN  /\ paeth_result \in {a, b, c}
            /\ aNearest => paeth_result = a
            /\ (~aNearest /\ Dist(p, b) <= Dist(p, c)) => paeth_result = b
            /\ (~aNearest /\ Dist(p, b) > Dist(p, c)) => paeth_result = c
            /\ paeth_args = <<0, 0, 0>> => paeth_result = 0
            /\ paeth_args = <<10, 20, 15>> => paeth_result = 15

\* C8 witness: paeth_predictor(10, 20, 15) has returned c = 15.
C8_Witness ==
    /\ paeth_pc = "returned"
    /\ paeth_args = <<10, 20, 15>>
    /\ paeth_result = 15

----------------------------------------------------------------------------
(* validate_app_icons.py: decode_png_rgba_alpha_bounds, lines 94-166 *)

\* line 94: channels_by_color_type
channels_by_color_type(ct) ==
    CASE ct = 0 -> 1
      [] ct = 2 -> 3
      [] ct = 4 -> 2
      [] ct = 6 -> 4

\* bytes(n): n zero bytes
ZeroBytes(n) == [i \in 1..n |-> 0]

\* mutant of filter_predictor: Average rounds up
filter_predictor_round_up(filt, left, up, up_left) ==
    CASE filt = 1 -> left
      [] filt = 2 -> up
      [] filt = 3 -> (left + up + 1) \div 2
      [] filt = 4 -> paeth_predictor(left, up, up_left)

\* lines 121, 124, 129, 135: what filter types 1..4 add to the filtered byte
filter_predictor(filt, left, up, up_left) ==
    CASE filt = 1 -> left
      [] filt = 2 -> up
      [] filt = 3 -> (left + up) \div 2
      [] filt = 4 -> paeth_predictor(left, up, up_left)

\* mutant of left_index: the left neighbour is taken one byte back
left_index_one_byte(i, bytes_per_pixel) == i - 1

\* lines 120, 127, 132, 134: the index i - bytes_per_pixel of the left and
\* upper-left neighbours
left_index(i, bytes_per_pixel) == i - bytes_per_pixel

RECURSIVE reconstruct(_, _, _, _, _, _)
\* lines 118-135: the loop "for i in range(row_bytes)" of filter types 1..4,
\* from index i on, recon holding the bytes before i
reconstruct(filt, raw, prev, bytes_per_pixel, recon, i) ==
    IF i >= Len(raw) THEN recon
    ELSE LET left == IF i >= bytes_per_pixel
                     THEN recon[left_index(i, bytes_per_pixel) + 1] ELSE 0
             up == prev[i + 1]
             up_left == IF i >= bytes_per_pixel
                        THEN prev[left_index(i, bytes_per_pixel) + 1] ELSE 0
             byte == (raw[i + 1] + filter_predictor(filt, left, up, up_left)) % 256
         IN  reconstruct(filt, raw, prev, bytes_per_pixel, Append(recon, byte), i + 1)

\* lines 115-137: one row; ok = FALSE stands for the unsupported filter type
reconstruct_row(filt, raw, prev, bytes_per_pixel) ==
    IF filt = 0 THEN [ok |-> TRUE, recon |-> raw]
    ELSE IF filt \in 1..4
    THEN [ok |-> TRUE, recon |-> reconstruct(filt, raw, prev, bytes_per_pixel, <<>>, 0)]
    ELSE [ok |-> FALSE, recon |-> <<>>]

\* mutant of pixel_alpha: the alpha byte is read at the pixel's first channel
pixel_alpha_first_channel(ct, row, x) ==
    IF ct \in {0, 2} THEN 255
    ELSE IF ct = 4 THEN row[(x * 2) + 1]
    ELSE row[(x * 4) + 1]

\* lines 149-154: the alpha of pixel x of a row
pixel_alpha(ct, row, x) ==
    IF ct \in {0, 2} THEN 255
    ELSE IF ct = 4 THEN row[(x * 2) + 1 + 1]
    ELSE row[(x * 4) + 3 + 1]

Min(x, y) == IF x <= y THEN x ELSE y
Max(x, y) == IF x >= y THEN x ELSE y

RECURSIVE scan_alpha(_, _, _, _, _)
\* lines 147-159: the two loops over the pixels, from pixel n (row-major) on
scan_alpha(ct, w, decoded, box, n) ==
    IF w = 0 \/ n >= w * Len(decoded) THEN box
    ELSE LET y == n \div w
             x == n % w
             alpha == pixel_alpha(ct, decoded[y + 1], x)
         IN  scan_alpha(ct, w, decoded,
                        IF alpha > 0
                        THEN [min_x |-> Min(box.min_x, x), min_y |-> Min(box.min_y, y),
                              max_x |-> Max(box.max_x, x), max_y |-> Max(box.max_y, y)]
                        ELSE box,
                        n + 1)

\* lines 100-107: the length check and the set-up of the row loop
DecodeCheckSize ==
    /\ png_pc = "inflated"
    /\ LET bytes_per_pixel == channels_by_color_type(color_type)
           row_bytes == width * bytes_per_pixel
           expected == (row_bytes + 1) * height
       IN  IF Len(payload) # expected
           THEN /\ png_pc' = "failed"
                /\ png_error' = "Unexpected decompressed PNG size"
                /\ UNCHANGED <<rows, prev_row, pos>>
           ELSE /\ png_pc' = "rows"
                /\ rows' = <<>>
                /\ prev_row' = ZeroBytes(row_bytes)
                /\ pos' = 0
                /\ UNCHANGED png_error
    /\ UNCHANGED <<width, height, color_type, payload, bbox, png_result>>
    /\ UNCHANGED otherThanPng

\* lines 109-140: one iteration of "for _ in range(height)"
DecodeRow ==
    /\ png_pc = "rows"
    /\ Len(rows) < height
    /\ LET bytes_per_pixel == channels_by_color_type(color_type)
           row_bytes == width * bytes_per_pixel
           filt == payload[pos + 1]
           raw == Slice(payload, pos + 1, pos + 1 + row_bytes)
           r == reconstruct_row(filt, raw, prev_row, bytes_per_pixel)
       IN  IF r.ok
           THEN /\ rows' = Append(rows, r.recon)
                /\ prev_row' = r.recon
                /\ pos' = pos + 1 + row_bytes
                /\ UNCHANGED <<png_pc, png_error>>
           ELSE /\ png_pc' = "failed"
                /\ png_error' = "Unsupported PNG filter type"
                /\ pos' = pos + 1 + row_bytes
                /\ UNCHANGED <<rows, prev_row>>
    /\ UNCHANGED <<width, height, color_type, payload, bbox, png_result>>
    /\ UNCHANGED otherThanPng

\* lines 142-159: the scan of every pixel's alpha
ScanAlpha ==
    /\ png_pc = "rows"
    /\ Len(rows) = height
    /\ bbox' = scan_alpha(color_type, width, rows,
                          [min_x |-> width, min_y |-> height, max_x |-> -1, max_y |-> -1],
                          0)
    /\ png_pc' = "bounds"
    /\ UNCHANGED <<width, height, color_type, payload, pos, rows, prev_row,
                   png_result, png_error>>
    /\ UNCHANGED otherThanPng

\* mutant of coverage_analysis: a box one pixel wide or high counts as empty
coverage_analysis_thin_box_empty(w, h, box) ==
    IF box.max_x <= box.min_x \/ box.max_y <= box.min_y
    THEN [ok |-> FALSE, error |-> "PNG appears fully transparent", result |-> NoResult]
    ELSE [ok |-> TRUE, error |-> "",
          result |-> [width |-> w, height |-> h,
                      coverage_w |-> [num |-> box.max_x - box.min_x + 1, den |-> w],
                      coverage_h |-> [num |-> box.max_y - box.min_y + 1, den |-> h]]]

\* lines 161-166: the fully-transparent check and the coverage ratios of an
\* image of w x h pixels whose scan gave box; a ratio is the fraction [num, den]
coverage_analysis(w, h, box) ==
    IF box.max_x < box.min_x \/ box.max_y < box.min_y
    THEN [ok |-> FALSE, error |-> "PNG appears fully transparent", result |-> NoResult]
    ELSE [ok |-> TRUE, error |-> "",
          result |-> [width |-> w, height |-> h,
                      coverage_w |-> [num |-> box.max_x - box.min_x + 1, den |-> w],
                      coverage_h |-> [num |-> box.max_y - box.min_y + 1, den |-> h]]]

\* lines 161-166
CoverageResult ==
    /\ png_pc = "bounds"
    /\ LET r == coverage_analysis(width, height, bbox)
       IN  /\ png_pc' = IF r.ok THEN "done" ELSE "failed"
           /\ png_error' = r.error
           /\ png_result' = r.result
    /\ UNCHANGED <<width, height, color_type, payload, pos, rows, prev_row, bbox>>
    /\ UNCHANGED otherThanPng

----------------------------------------------------------------------------
(* validate_app_icons.py: decode_png_rgba_alpha_bounds, lines 59-99 *)

RECURSIVE join_last_first(_)
\* mutant of join: the chunks are concatenated last to first
join_last_first(chunks) ==
    IF chunks = <<>> THEN <<>> ELSE join_last_first(Tail(chunks)) \o Head(chunks)

RECURSIVE join(_)
\* line 99: b"".join(chunks)
join(chunks) == IF chunks = <<>> THEN <<>> ELSE Head(chunks) \o join(Tail(chunks))

RECURSIVE adler_sums(_, _, _)
\* the two running sums of Adler-32 over the bytes, from the sums a and b
adler_sums(bytes, a, b) ==
    IF bytes = <<>> THEN <<a, b>>
    ELSE LET a2 == (a + Head(bytes)) % 65521
         IN  adler_sums(Tail(bytes), a2, (b + a2) % 65521)

\* the Adler-32 check value of the bytes, as the four bytes that end a zlib
\* stream
adler32(bytes) ==
    LET ab == adler_sums(bytes, 1, 0)
    IN  <<ab[2] \div 256, ab[2] % 256, ab[1] \div 256, ab[1] % 256>>

\* zlib's check of the two header bytes of a stream: method 8, a window of at
\* most 32K, the check bits, no preset dictionary
zlib_header_ok(cmf, flg) ==
    /\ cmf % 16 = 8
    /\ cmf \div 16 <= 7
    /\ (cmf * 256 + flg) % 31 = 0
    /\ (flg \div 32) % 2 = 0

RECURSIVE inflate_blocks(_, _, _)
\* The deflate blocks of a stream from byte p (0-based) on, out holding what
\* the blocks before p gave.  A stored block is copied; block type 3 is
\* invalid; the Huffman-coded block types 1 and 2 are not modelled and no
\* stream the decoder is run on here has one.  After the final block come the
\* four Adler-32 bytes; bytes after them are ignored.
inflate_blocks(bytes, p, out) ==
    IF p >= Len(bytes) THEN [ok |-> FALSE, out |-> <<>>]
    ELSE LET final == bytes[p + 1] % 2
             btype == (bytes[p + 1] \div 2) % 4
         IN  CASE btype = 3 -> [ok |-> FALSE, out |-> <<>>]
               [] btype = 0 ->
                    IF p + 5 > Len(bytes) THEN [ok |-> FALSE, out |-> <<>>]
                    ELSE LET len == UnpackLE16(bytes, p + 1)
                             nlen == UnpackLE16(bytes, p + 3)
                             stop == p + 5 + len
                             out2 == out \o Slice(bytes, p + 5, stop)
                         IN  IF nlen # 65535 - len \/ stop > Len(bytes)
                             THEN [ok |-> FALSE, out |-> <<>>]
                             ELSE IF final = 0 THEN inflate_blocks(bytes, stop, out2)
                             ELSE IF Slice(bytes, stop, stop + 4) = adler32(out2)
                             THEN [ok |-> TRUE, out |-> out2]
                             ELSE [ok |-> FALSE, out |-> <<>>]

\* line 99: zlib.decompress; ok = FALSE stands for zlib.error
zlib_decompress(bytes) ==
    IF Len(bytes) < 2 \/ ~zlib_header_ok(bytes[1], bytes[2])
    THEN [ok |-> FALSE, out |-> <<>>]
    ELSE inflate_blocks(bytes, 2, <<>>)

\* lines 60-67: the signature check and the set-up of the chunk loop
ReadSignature ==
    /\ png_pc = "open"
    /\ IF Len(png_data) < 8 \/ Slice(png_data, 0, 8) # PNG_SIGNATURE
       THEN /\ png_pc' = "failed"
            /\ png_error' = "Not a PNG file"
            /\ UNCHANGED <<cursor, ihdr_seen, idat_chunks>>
       ELSE /\ png_pc' = "chunks"
            /\ cursor' = 8
            /\ ihdr_seen' = FALSE
            /\ idat_chunks' = <<>>
            /\ UNCHANGED png_error
    /\ UNCHANGED <<png_data, bit_depth, width, height, color_type, payload, pos,
                   rows, prev_row, bbox, png_result>>
    /\ UNCHANGED otherThanFile

\* lines 69-87: one iteration of the chunk loop
ReadChunk ==
    /\ png_pc = "chunks"
    /\ cursor + 8 <= Len(png_data)
    /\ LET length == UnpackBE32(png_data, cursor)
           chunk_type == Slice(png_data, cursor + 4, cursor + 8)
           chunk_data == Slice(png_data, cursor + 8, cursor + 8 + length)
       IN  /\ cursor' = cursor + 4 + 4 + length + 4
           /\ IF chunk_type = IHDR
              THEN IF Len(chunk_data) < 13
                   THEN /\ png_pc' = "raised"
                        /\ png_error' = "struct.error"
                        /\ UNCHANGED <<width, height, bit_depth, color_type,
                                       ihdr_seen, idat_chunks>>
                   ELSE /\ width' = UnpackBE32(chunk_data, 0)
                        /\ height' = UnpackBE32(chunk_data, 4)
                        /\ bit_depth' = chunk_data[9]
                        /\ color_type' = chunk_data[10]
                        /\ ihdr_seen' = TRUE
                        /\ IF chunk_data[11] # 0 \/ chunk_data[12] # 0
                              \/ chunk_data[13] # 0
                           THEN /\ png_pc' = "failed"
                                /\ png_error' = "Unsupported PNG encoding options"
                           ELSE UNCHANGED <<png_pc, png_error>>
                        /\ UNCHANGED idat_chunks
              ELSE IF chunk_type = IDAT
              THEN /\ idat_chunks' = Append(idat_chunks, chunk_data)
                   /\ UNCHANGED <<png_pc, png_error, width, height, bit_depth,
                                  color_type, ihdr_seen>>
              ELSE IF chunk_type = IEND
              THEN /\ png_pc' = "header"
                   /\ UNCHANGED <<png_error, width, height, bit_depth, color_type,
                                  ihdr_seen, idat_chunks>>
              ELSE UNCHANGED <<png_pc, png_error, width, height, bit_depth,
                               color_type, ihdr_seen, idat_chunks>>
    /\ UNCHANGED <<png_data, payload, pos, rows, prev_row, bbox, png_result>>
    /\ UNCHANGED otherThanFile

\* line 69: the loop ends when fewer than 8 bytes are left
ChunksEnd ==
    /\ png_pc = "chunks"
    /\ ~(cursor + 8 <= Len(png_data))
    /\ png_pc' = "header"
    /\ UNCHANGED <<png_data, cursor, ihdr_seen, bit_depth, idat_chunks, width,
                   height, color_type, payload, pos, rows, prev_row, bbox,
                   png_result, png_error>>
    /\ UNCHANGED otherThanFile

\* lines 89-97: the checks on the header fields
CheckHeader ==
    /\ png_pc = "header"
    /\ IF ~ihdr_seen
       THEN png_pc' = "failed" /\ png_error' = "Missing PNG header chunks"
       ELSE IF bit_depth # 8
       THEN png_pc' = "failed" /\ png_error' = "Unsupported PNG bit depth"
       ELSE IF color_type \notin {0, 2, 4, 6}
       THEN png_pc' = "failed" /\ png_error' = "Unsupported PNG color type"
       ELSE png_pc' = "inflate" /\ UNCHANGED png_error
    /\ UNCHANGED <<png_data, cursor, ihdr_seen, bit_depth, idat_chunks, width,
                   height, color_type, payload, pos, rows, prev_row, bbox,
                   png_result>>
    /\ UNCHANGED otherThanFile

\* line 99: payload = zlib.decompress(b"".join(idat_chunks))
Inflate ==
    /\ png_pc = "inflate"
    /\ LET r == zlib_decompress(join(idat_chunks))
       IN  IF r.ok
           THEN /\ png_pc' = "inflated"
                /\ payload' = r.out
                /\ UNCHANGED png_error
           ELSE /\ png_pc' = "raised"
                /\ png_error' = "zlib.error"
                /\ UNCHANGED payload
    /\ UNCHANGED <<png_data, cursor, ihdr_seen, bit_depth, idat_chunks, width,
                   height, color_type, pos, rows, prev_row, bbox, png_result>>
    /\ UNCHANGED otherThanFile

----------------------------------------------------------------------------
(* SpecPng: the inflated streams decode_png_rgba_alpha_bounds is run on *)

\* the filtered bytes of a scanline vary over these values
RawBytes == {0, 255}

\* the filter-type bytes: the five filter types and an unsupported one
FilterBytes == 0..5

\* The filtered bytes of one pixel.  The first channel and the alpha channel
\* vary; the other channels of a truecolor pixel are fixed.
PixelBytes(ct) ==
    CASE ct = 0 -> {<<v>> : v \in RawBytes}
      [] ct = 2 -> {<<v, 128, 64>> : v \in RawBytes}
      [] ct = 4 -> {<<v, a>> : v \in RawBytes, a \in RawBytes}
      [] ct = 6 -> {<<v, 128, 64, a>> : v \in RawBytes, a \in RawBytes}

RECURSIVE Streams(_, _)
\* all concatenations of n elements of the set S of byte strings
Streams(S, n) ==
    IF n = 0 THEN {<<>>}
    ELSE {s \o t : s \in S, t \in Streams(S, n - 1)}

\* the scanlines of a w-pixel row: a filter-type byte, then the filtered bytes
Scanlines(ct, w) == {<<f>> \o px : f \in FilterBytes, px \in Streams(PixelBytes(ct), w)}

\* the scanlines of a w-pixel row of an image given by its alpha channel:
\* filter type 0, the other channels fixed
AlphaScanlines(ct, w) ==
    LET px == IF ct = 4 THEN {<<200, a>> : a \in RawBytes}
              ELSE {<<200, 128, 64, a>> : a \in RawBytes}
    IN  {<<0>> \o s : s \in Streams(px, w)}

ColorTypes == {0, 2, 4, 6}

\* width and height of the images enumerated by their alpha channel alone
AlphaShapes == {<<3, 3>>}

\* the images enumerated scanline by scanline
SmallShapes ==
    {s \in ColorTypes \X (0..MaxWidth) \X (0..MaxHeight) : s[2] * s[3] <= MaxPixels}

\* an inflated stream of the wrong length for the shape
WrongLength(ct, w, h) ==
    {ZeroBytes((w * channels_by_color_type(ct) + 1) * h + 1)}
    \cup (IF h > 0 THEN {ZeroBytes((w * channels_by_color_type(ct) + 1) * h - 1)} ELSE {})

\* the images enumerated scanline by scanline, with their inflated streams
SmallInput ==
    \E s \in SmallShapes :
        /\ color_type = s[1]
        /\ width = s[2]
        /\ height = s[3]
        /\ payload \in Streams(Scanlines(s[1], s[2]), s[3])
                        \cup WrongLength(s[1], s[2], s[3])

\* the square images enumerated by their alpha channel
AlphaInput ==
    \E ct \in {4, 6}, s \in AlphaShapes :
        /\ color_type = ct
        /\ width = s[1]
        /\ height = s[2]
        /\ payload \in Streams(AlphaScanlines(ct, s[1]), s[2])

InitPng ==
    /\ png_pc = "inflated"
    /\ (SmallInput \/ AlphaInput)
    /\ pos = 0
    /\ rows = <<>>
    /\ prev_row = <<>>
    /\ bbox = NoBox
    /\ png_result = NoResult
    /\ png_error = ""

NextPng == DecodeCheckSize \/ DecodeRow \/ ScanAlpha \/ CoverageResult

PngInit == InitPng /\ IdleIco /\ IdlePaeth /\ IdleVal /\ IdleDim /\ IdleFile

SpecPng == PngInit /\ [][NextPng]_vars

----------------------------------------------------------------------------
(* Properties of decode_png_rgba_alpha_bounds *)

\* channel count and row stride of the image being decoded
Bpp == channels_by_color_type(color_type)
Stride == width * Bpp

\* the filter-type byte and the i-th filtered byte (0-based) of row y (1-based)
\* of the inflated stream
FilterType(y) == payload[(y - 1) * (Stride + 1) + 1]
Filtered(y, i) == payload[(y - 1) * (Stride + 1) + 1 + i + 1]

\* the reconstructed byte i (0-based) of row y (1-based); row 0 is all zeros
Output(y, i) == IF y = 0 THEN 0 ELSE rows[y][i + 1]

\* the predictor the filter rule of row y assigns to byte i
Predictor(y, i) ==
    LET left == IF i >= Bpp THEN Output(y, i - Bpp) ELSE 0
        above == Output(y - 1, i)
        upper_left == IF i >= Bpp THEN Output(y - 1, i - Bpp) ELSE 0
        p == left + above - upper_left
        nearest ==
            IF Dist(p, left) <= Dist(p, above) /\ Dist(p, left) <= Dist(p, upper_left)
            THEN left
            ELSE IF Dist(p, above) <= Dist(p, upper_left) THEN above
            ELSE upper_left
    IN  CASE FilterType(y) = 0 -> 0
          [] FilterType(y) = 1 -> left
          [] FilterType(y) = 2 -> above
          [] FilterType(y) = 3 -> (left + above) \div 2
          [] FilterType(y) = 4 -> nearest

\* the inflated stream has the length the header asks for
LengthOk == Len(payload) = (Stride + 1) * height

\* C9: scanline reconstruction.  Every byte of every reconstructed row is the
\* filtered byte plus the predictor of the row's filter type, mod 256 (left
\* and upper-left are 0 before the first pixel, the row above the first row is
\* zeros); Sub leaves the first bpp bytes as filter None does; a row whose
\* filter type is outside 0..4 is never reconstructed and ends the decode with
\* the unsupported-filter-type failure.
C9_Reconstruction ==
    /\ \A y \in 1..Len(rows) :
          /\ Len(rows[y]) = Stride
          /\ FilterType(y) \in 0..4
          /\ \A i \in 0..(Stride - 1) :
                /\ Output(y, i) = (Filtered(y, i) + Predictor(y, i)) % 256
                /\ (FilterType(y) = 1 /\ i < Bpp) => Output(y, i) = Filtered(y, i)
    /\ \A y \in 1..height :
          (LengthOk /\ FilterType(y) \notin 0..4) =>
              /\ Len(rows) < y
              /\ png_pc \in {"inflated", "rows", "failed"}
    /\ (png_pc = "failed" /\ png_error = "Unsupported PNG filter type") =>
          FilterType(Len(rows) + 1) \notin 0..4

\* C9 witness: a two-pixel, two-row image was reconstructed whose first row
\* is Average-filtered and whose second row is Paeth-filtered, with bytes that
\* differ from the filtered ones.
C9_Witness ==
    /\ png_pc = "done"
    /\ width = 2
    /\ height = 2
    /\ color_type = 4
    /\ FilterType(1) = 3
    /\ FilterType(2) = 4
    /\ Output(1, 2) # Filtered(1, 2)
    /\ Output(2, 3) # Filtered(2, 3)
    /\ Output(2, 3) # 0

\* the alpha of pixel (x, y) (0-based): 255 for Grayscale and Truecolor, the
\* last channel of the pixel otherwise
AlphaAt(x, y) ==
    IF color_type \in {0, 2} THEN 255 ELSE rows[y + 1][x * Bpp + Bpp]

\* the pixels with alpha > 0
OpaquePixels ==
    {p \in (0..(width - 1)) \X (0..(height - 1)) : AlphaAt(p[1], p[2]) > 0}

\* C10: coverage bounds.  When the coverage analysis succeeds the bounding
\* box lies inside the image, contains every pixel with alpha > 0 and touches
\* such a pixel on each of its four sides; the ratios returned are
\* (max_x - min_x + 1) / width and (max_y - min_y + 1) / height, both in
\* (0, 1], and both exactly 1 for Grayscale and Truecolor.
C10_CoverageBounds ==
    png_pc = "done" =>
        /\ 0 <= bbox.min_x /\ bbox.min_x <= bbox.max_x /\ bbox.max_x < width
        /\ 0 <= bbox.min_y /\ bbox.min_y <= bbox.max_y /\ bbox.max_y < height
        /\ \A p \in OpaquePixels :
              /\ bbox.min_x <= p[1] /\ p[1] <= bbox.max_x
              /\ bbox.min_y <= p[2] /\ p[2] <= bbox.max_y
        /\ \E p \in OpaquePixels : p[1] = bbox.min_x
        /\ \E p \in OpaquePixels : p[1] = bbox.max_x
        /\ \E p \in OpaquePixels : p[2] = bbox.min_y
        /\ \E p \in OpaquePixels : p[2] = bbox.max_y
        /\ png_result.width = width
        /\ png_result.height = height
        /\ png_result.coverage_w = [num |-> bbox.max_x - bbox.min_x + 1, den |-> width]
        /\ png_result.coverage_h = [num |-> bbox.max_y - bbox.min_y + 1, den |-> height]
        /\ 0 < png_result.coverage_w.num
        /\ png_result.coverage_w.num <= png_result.coverage_w.den
        /\ 0 < png_result.coverage_h.num
        /\ png_result.coverage_h.num <= png_result.coverage_h.den
        /\ color_type \in {0, 2} =>
              /\ png_result.coverage_w.num = png_result.coverage_w.den
              /\ png_result.coverage_h.num = png_result.coverage_h.den

\* C10 witness: a 3x3 TruecolorAlpha image was analysed whose opaque pixels
\* span columns 1..2 and rows 0..1 only, with a transparent pixel inside the
\* box.
C10_Witness ==
    /\ png_pc = "done"
    /\ color_type = 6
    /\ width = 3
    /\ height = 3
    /\ bbox = [min_x |-> 1, min_y |-> 0, max_x |-> 2, max_y |-> 1]
    /\ AlphaAt(1, 0) = 0
    /\ png_result.coverage_w = [num |-> 2, den |-> 3]

\* the coverage analysis has ended: with ratios, or with the
\* fully-transparent failure
Analysed ==
    \/ png_pc = "done"
    \/ png_pc = "failed" /\ png_error = "PNG appears fully transparent"

\* C11: fully transparent rejection.  The coverage analysis ends with the
\* fully-transparent failure exactly when no pixel of the decoded image has
\* alpha > 0, an image of zero pixels included; it then returns no ratios,
\* and it never ends this way when some pixel has alpha > 0.
C11_FullyTransparent ==
    /\ Analysed =>
          /\ Len(rows) = height
          /\ (png_pc = "failed") <=> (OpaquePixels = {})
          /\ (png_pc = "failed") => png_result = NoResult
          /\ (png_pc = "done") => png_error = ""
    /\ png_pc = "failed" =>
          png_error \in {"Unexpected decompressed PNG size",
                         "Unsupported PNG filter type",
                         "PNG appears fully transparent"}

\* C11 witness: a 2x2 GrayscaleAlpha image whose gray bytes are 255 and whose
\* alpha bytes are all 0 was analysed and rejected as fully transparent.
C11_Witness ==
    /\ png_pc = "failed"
    /\ png_error = "PNG appears fully transparent"
    /\ color_type = 4
    /\ width = 2
    /\ height = 2
    /\ \A y \in 1..2 : rows[y] = <<255, 0, 255, 0>>

----------------------------------------------------------------------------
(* validate_app_icons.py: main *)

\* lines 13-14
EXPECTED_PNG_SIZES == <<16, 24, 32, 40, 48, 64, 128, 256, 512, 1024>>
EXPECTED_ICO_SIZES == <<16, 24, 32, 40, 48, 64, 128, 256>>

\* line 207: the dimension the largest PNG must have
EXPECTED_DIMENSION == 1024

\* line 180: the default of --coverage-threshold, 0.88
DEFAULT_COVERAGE_THRESHOLD == [num |-> 88, den |-> 100]

\* A path in icons_dir: <<"ico", 0>> is butterpaper-icon.ico, <<"icns", 0>>
\* is butterpaper-icon.icns, <<"png", n>> is butterpaper-icon-<n>.png.
IcoPath == <<"ico", 0>>
IcnsPath == <<"icns", 0>>
PngPath(size) == <<"png", size>>

\* lines 191-192
required_files ==
    <<IcoPath, IcnsPath>>
    \o [i \in 1..Len(EXPECTED_PNG_SIZES) |-> PngPath(EXPECTED_PNG_SIZES[i])]

\* mutant of missing_files: only the first missing path is kept
missing_files_first_only(files, on_disk) ==
    LET all == SelectSeq(files, LAMBDA p : p \notin on_disk)
    IN  IF all = <<>> THEN <<>> ELSE <<all[1]>>

\* line 194: the required paths that do not exist, in the order of the list
missing_files(files, on_disk) == SelectSeq(files, LAMBDA p : p \notin on_disk)

RECURSIVE insert_sorted(_, _)
\* x put into its place in the ascending list
insert_sorted(x, list) ==
    IF list = <<>> THEN <<x>>
    ELSE IF x <= Head(list) THEN <<x>> \o list
    ELSE <<Head(list)>> \o insert_sorted(x, Tail(list))

RECURSIVE sort_ascending(_)
sort_ascending(list) ==
    IF list = <<>> THEN <<>>
    ELSE insert_sorted(Head(list), sort_ascending(Tail(list)))

\* mutant of sorted: the list is compared as returned
sorted_as_is(list) == list

\* line 198: sorted()
sorted(list) == sort_ascending(list)

\* a < b for fractions with positive denominators
Less(p, q) == p.num * q.den < q.num * p.den

\* mutant of coverage_below: both axes must be below the threshold
coverage_below_both(cov_w, cov_h, thr) == Less(cov_w, thr) /\ Less(cov_h, thr)

\* line 209
coverage_below(cov_w, cov_h, thr) == Less(cov_w, thr) \/ Less(cov_h, thr)

----------------------------------------------------------------------------
(* The files main() may find in icons_dir *)

\* An ICO file with the directory bytes given, one <<width, height>> pair of
\* bytes per entry; its payloads are left out (parse_ico_sizes stops at the
\* end of the directory).
IcoFileWith(pairs) ==
    LET n == Len(pairs)
        Entry(k) == pack_entry(pairs[k][1], pairs[k][2], 0, first_offset(n))
        RECURSIVE Dir(_)
        Dir(k) == IF k > n THEN <<>> ELSE Entry(k) \o Dir(k + 1)
    IN  pack_header(n) \o Dir(1)

\* the ICO file whose entries are square with the sizes listed
IcoFileOfSizes(list) ==
    IcoFileWith([k \in 1..Len(list) |->
                    <<entry_dimension(list[k]), entry_dimension(list[k])>>])

Reverse(list) == [k \in 1..Len(list) |-> list[Len(list) + 1 - k]]
RotateLeft(list, r) == [k \in 1..Len(list) |-> list[((k - 1 + r) % Len(list)) + 1]]
RemoveAt(list, i) == SubSeq(list, 1, i - 1) \o SubSeq(list, i + 1, Len(list))
ReplaceAt(list, i, x) == [list EXCEPT ![i] = x]

\* sizes put into a directory besides the expected ones
ExtraSizes == {16, 256, 20, 255}

\* the expected sizes in three orders
OrdersOfExpected ==
    {EXPECTED_ICO_SIZES, Reverse(EXPECTED_ICO_SIZES), RotateLeft(EXPECTED_ICO_SIZES, 3)}

\* directories that differ from one of these by at most one entry
DirectoryLists ==
    OrdersOfExpected
    \cup {RemoveAt(b, i) : b \in OrdersOfExpected, i \in 1..Len(EXPECTED_ICO_SIZES)}
    \cup {Append(b, x) : b \in OrdersOfExpected, x \in ExtraSizes}
    \cup {<<x>> \o b : b \in OrdersOfExpected, x \in ExtraSizes}
    \cup {ReplaceAt(b, i, x) : b \in OrdersOfExpected, i \in {1, 5}, x \in ExtraSizes}
    \cup {<<>>, <<16>>}

\* the contents butterpaper-icon.ico may have
IcoFilesOnDisk ==
    {IcoFileOfSizes(list) : list \in DirectoryLists}
    \cup { <<0, 0, 1>>,
           <<1, 0, 1, 0, 0, 0>>,
           <<0, 0, 2, 0, 0, 0>>,
           SubSeq(IcoFileOfSizes(EXPECTED_ICO_SIZES), 1, 6 + 16 * 7),
           IcoFileWith(<<<<16, 32>>>>),
           IcoFileWith(<<<<0, 16>>, <<16, 16>>>>) }

\* columns or rows min..max a scan of a side-long axis may end with
Extents(side) ==
    IF side = EXPECTED_DIMENSION
    THEN {<<0, 1023>>, <<61, 962>>, <<61, 961>>, <<0, 511>>, <<700, 700>>}
    ELSE {<<0, side - 1>>, <<0, 0>>}

\* What decode_png_rgba_alpha_bounds has after its scan of
\* butterpaper-icon-1024.png (line 160): a failure before the scan, or the
\* image's width and height and the bounding box of the scan.  The pixels of
\* the image are not enumerated.
ScannedPngs ==
    {[error |-> e, width |-> 0, height |-> 0, box |-> NoBox] :
        e \in {"Not a PNG file", "Unsupported PNG bit depth"}}
    \cup UNION {{[error |-> "", width |-> d[1], height |-> d[2],
                  box |-> [min_x |-> ex[1], max_x |-> ex[2],
                           min_y |-> ey[1], max_y |-> ey[2]]] :
                    ex \in Extents(d[1]), ey \in Extents(d[2])} :
                 d \in {<<1024, 1024>>, <<512, 512>>, <<1024, 512>>, <<2, 1>>}}
    \cup {[error |-> "", width |-> d[1], height |-> d[2],
           box |-> [min_x |-> d[1], max_x |-> -1, min_y |-> d[2], max_y |-> -1]] :
             d \in {<<1024, 1024>>}}

\* the values of --coverage-threshold
Thresholds ==
    {DEFAULT_COVERAGE_THRESHOLD, [num |-> 1, den |-> 2], [num |-> 1, den |-> 1]}

----------------------------------------------------------------------------
(* main(), step by step *)

\* fail(): the message goes to stderr and SystemExit(1) ends the process
Fail(kind, paths) ==
    /\ message' = [kind |-> kind, paths |-> paths]
    /\ exit_status' = 1
    /\ val_pc' = "exit"

\* lines 191-196
ValCheckMissing ==
    /\ val_pc = "start"
    /\ checks' = Append(checks, "missing")
    /\ LET missing == missing_files(required_files, present)
       IN  IF missing # <<>>
           THEN Fail("Missing icon assets", missing)
           ELSE /\ val_pc' = "ico"
                /\ UNCHANGED <<message, exit_status>>
    /\ UNCHANGED <<present, threshold, ico_sizes, calls>>
    /\ UNCHANGED <<icoVars, paethVars, pngVars, dimVars, fileVars>>

\* lines 198-203: parse_ico_sizes on the file in icons_dir, sort, compare
ValCheckIco ==
    /\ val_pc = "ico"
    /\ calls' = Append(calls, "parse_ico_sizes")
    /\ checks' = Append(checks, "ico")
    /\ \E bytes \in IcoFilesOnDisk :
          LET r == parse_ico_sizes(bytes)
          IN  /\ data' = bytes
              /\ rpc' = IF r.ok THEN "done" ELSE "failed"
              /\ sizes' = r.sizes
              /\ read_error' = r.error
              /\ IF ~r.ok
                 THEN /\ Fail(r.error, <<>>)
                      /\ UNCHANGED ico_sizes
                 ELSE /\ ico_sizes' = sorted(r.sizes)
                      /\ IF sorted(r.sizes) # EXPECTED_ICO_SIZES
                         THEN Fail("ICO size set mismatch", <<>>)
                         ELSE /\ val_pc' = "png"
                              /\ UNCHANGED <<message, exit_status>>
    /\ UNCHANGED <<present, threshold>>
    /\ UNCHANGED <<buildVars, paethVars, pngVars, dimVars, fileVars>>

\* lines 205-206: decode_png_rgba_alpha_bounds on the 1024 PNG
ValDecodePng ==
    /\ val_pc = "png"
    /\ calls' = Append(calls, "decode_png_rgba_alpha_bounds")
    /\ checks' = Append(checks, "decode")
    /\ \E png \in ScannedPngs :
          LET r == IF png.error # ""
                   THEN [ok |-> FALSE, error |-> png.error, result |-> NoResult]
                   ELSE coverage_analysis(png.width, png.height, png.box)
          IN  /\ width' = png.width
              /\ height' = png.height
              /\ bbox' = png.box
              /\ png_pc' = IF r.ok THEN "done" ELSE "failed"
              /\ png_error' = r.error
              /\ png_result' = r.result
              /\ IF r.ok
                 THEN /\ val_pc' = "dims"
                      /\ UNCHANGED <<message, exit_status>>
                 ELSE Fail(r.error, <<>>)
    /\ UNCHANGED <<present, threshold, ico_sizes>>
    /\ UNCHANGED <<icoVars, paethVars, scanlineVars, dimVars, fileVars>>

\* lines 207-208
ValCheckDims ==
    /\ val_pc = "dims"
    /\ checks' = Append(checks, "dimensions")
    /\ IF png_result.width # EXPECTED_DIMENSION \/ png_result.height # EXPECTED_DIMENSION
       THEN Fail("Expected 1024x1024 PNG", <<>>)
       ELSE /\ val_pc' = "coverage"
            /\ UNCHANGED <<message, exit_status>>
    /\ UNCHANGED <<present, threshold, ico_sizes, calls>>
    /\ UNCHANGED <<icoVars, paethVars, pngVars, dimVars, fileVars>>

\* lines 209-213
ValCheckCoverage ==
    /\ val_pc = "coverage"
    /\ checks' = Append(checks, "coverage")
    /\ IF coverage_below(png_result.coverage_w, png_result.coverage_h, threshold)
       THEN Fail("Icon coverage below threshold", <<>>)
       ELSE /\ val_pc' = "report"
            /\ UNCHANGED <<message, exit_status>>
    /\ UNCHANGED <<present, threshold, ico_sizes, calls>>
    /\ UNCHANGED <<icoVars, paethVars, pngVars, dimVars, fileVars>>

\* lines 215-218: the report, return 0
ValReport ==
    /\ val_pc = "report"
    /\ exit_status' = 0
    /\ val_pc' = "exit"
    /\ UNCHANGED <<present, threshold, ico_sizes, message, calls, checks>>
    /\ UNCHANGED <<icoVars, paethVars, pngVars, dimVars, fileVars>>

InitVal ==
    /\ val_pc = "start"
    /\ present \in SUBSET Range(required_files)
    /\ threshold \in Thresholds
    /\ ico_sizes = <<>>
    /\ exit_status = -1
    /\ message = NoMessage
    /\ calls = <<>>
    /\ checks = <<>>

NextVal ==
    \/ ValCheckMissing
    \/ ValCheckIco
    \/ ValDecodePng
    \/ ValCheckDims
    \/ ValCheckCoverage
    \/ ValReport

ValInit == InitVal /\ IdleIco /\ IdlePaeth /\ IdlePng /\ IdleDim /\ IdleFile

SpecVal == ValInit /\ [][NextVal]_vars

----------------------------------------------------------------------------
(* Properties of main() *)

RequiredSet == Range(required_files)
ExpectedIcoSet == Range(EXPECTED_ICO_SIZES)

\* the last check main() evaluated
LastCheck == checks[Len(checks)]

\* main() has evaluated the ICO check / the ICO check did not fail
IcoChecked == "ico" \in Range(checks)
IcoPassed == IcoChecked /\ ~(exit_status = 1 /\ LastCheck = "ico")

\* C5 as claimed: the ICO check passes exactly when the set of the sizes
\* resolved from the directory equals {16,24,32,40,48,64,128,256}.
C5_SetEquality ==
    IcoChecked => (IcoPassed <=> (rpc = "done" /\ Range(sizes) = ExpectedIcoSet))

\* C5 as amended: the ICO check passes exactly when the directory resolves to
\* eight sizes whose set is {16,24,32,40,48,64,128,256}, that is when each
\* expected size occurs exactly once, in any order.
C5_EachSizeOnce ==
    IcoChecked =>
        (IcoPassed <=> /\ rpc = "done"
                       /\ Len(sizes) = Len(EXPECTED_ICO_SIZES)
                       /\ Range(sizes) = ExpectedIcoSet)

\* C5 witness: the check passed on a directory that lists the sizes in
\* descending order.
C5_Witness ==
    /\ IcoPassed
    /\ sizes = Reverse(EXPECTED_ICO_SIZES)
    /\ ico_sizes = EXPECTED_ICO_SIZES

\* C6: missing files.  With a required file absent main() invokes neither
\* decoder, and once its first check has run it has exited with status 1 and
\* a message that lists exactly the absent paths, each once.
C6_MissingFiles ==
    present # RequiredSet =>
        /\ calls = <<>>
        /\ rpc = "idle"
        /\ png_pc = "idle"
        /\ val_pc \in {"start", "exit"}
        /\ val_pc = "exit" =>
              /\ exit_status = 1
              /\ message.kind = "Missing icon assets"
              /\ Range(message.paths) = RequiredSet \ present
              /\ Len(message.paths) = Cardinality(RequiredSet \ present)

\* C6 witness: main() has exited on a directory that lacks the 1024 PNG only,
\* with that one path in its message.
C6_Witness ==
    /\ val_pc = "exit"
    /\ present = RequiredSet \ {PngPath(1024)}
    /\ message = [kind |-> "Missing icon assets", paths |-> <<PngPath(1024)>>]
    /\ exit_status = 1

\* the checks of main() in the order of the code
CheckOrder == <<"missing", "ico", "decode", "dimensions", "coverage">>

\* what each check asks of the files and of the threshold
Passes(check) ==
    CASE check = "missing" -> present = RequiredSet
      [] check = "ico" -> /\ rpc = "done"
                          /\ Len(sizes) = Len(EXPECTED_ICO_SIZES)
                          /\ Range(sizes) = ExpectedIcoSet
      [] check = "decode" -> png_pc = "done"
      [] check = "dimensions" -> /\ png_pc = "done"
                                 /\ png_result.width = 1024
                                 /\ png_result.height = 1024
      [] check = "coverage" ->
            /\ png_pc = "done"
            /\ png_result.coverage_w.num * threshold.den
                  >= threshold.num * png_result.coverage_w.den
            /\ png_result.coverage_h.num * threshold.den
                  >= threshold.num * png_result.coverage_h.den

\* C7: outcome and ordering.  The checks run in the order missing files, ICO,
\* PNG decode, PNG dimensions, coverage.  main() exits with status 0 if and
\* only if all five pass; otherwise it exits with status 1 at the first check
\* that fails, every check before it having passed, and nothing runs after
\* the exit.  With coverage 1/2 by 1 and the threshold 0.88 the run fails.
C7_OutcomeAndOrder ==
    /\ Len(checks) <= Len(CheckOrder)
    /\ \A k \in 1..Len(checks) : checks[k] = CheckOrder[k]
    /\ val_pc # "exit" => exit_status = -1
    /\ val_pc = "exit" =>
          /\ exit_status \in {0, 1}
          /\ exit_status = 0 <=> \A k \in 1..Len(CheckOrder) : Passes(CheckOrder[k])
          /\ exit_status = 0 => checks = CheckOrder
          /\ exit_status = 1 =>
                /\ checks # <<>>
                /\ ~Passes(LastCheck)
                /\ \A k \in 1..(Len(checks) - 1) : Passes(checks[k])
          /\ ~ENABLED NextVal
          /\ ( /\ png_pc = "done"
               /\ png_result.coverage_w.num * 2 = png_result.coverage_w.den
               /\ png_result.coverage_h.num = png_result.coverage_h.den
               /\ threshold = DEFAULT_COVERAGE_THRESHOLD ) => exit_status = 1

\* C7 witness: a 1024x1024 image whose opaque pixels span half the width and
\* the whole height passed every check but the last, and main() exited with
\* status 1 under the default threshold.
C7_Witness ==
    /\ val_pc = "exit"
    /\ exit_status = 1
    /\ checks = CheckOrder
    /\ threshold = DEFAULT_COVERAGE_THRESHOLD
    /\ png_result.coverage_w = [num |-> 512, den |-> 1024]
    /\ png_result.coverage_h = [num |-> 1024, den |-> 1024]
    /\ message.kind = "Icon coverage below threshold"


----------------------------------------------------------------------------
(* SpecReader: parse_ico_sizes on ICO files of any content *)

\* the width and height bytes of the directory entries
DirBytes == {0, 1, 16, 255}

\* one directory entry with the width and height bytes given; the other
\* fourteen bytes are not looked at by parse_ico_sizes
DirEntry(pair) == <<pair[1], pair[2], 9, 9, 1, 0, 32, 0, 4, 0, 0, 0, 22, 0, 0, 0>>

RECURSIVE Directory(_)
\* the directory made of the entries of a list of <<width, height>> bytes
Directory(pairs) ==
    IF pairs = <<>> THEN <<>> ELSE DirEntry(Head(pairs)) \o Directory(Tail(pairs))

\* the lists of <<width, height>> bytes, square or not
DirLists == SeqsUpTo(DirBytes \X DirBytes, MaxDirEntries)

\* the bytes that follow the directory: nothing, or payload
Trailing == {<<>>, <<7, 0, 255>>}

\* the header fields <<reserved, type, d>> of a file: its count field is the
\* number of entries present plus d, so above it, equal to it, or below it
HeaderVariants ==
    {<<0, 1, 0>>, <<0, 1, 1>>, <<0, 1, -1>>, <<0, 1, 256>>,
     <<1, 1, 0>>, <<0, 2, 0>>, <<0, 0, 0>>, <<256, 1, 0>>}

\* the ICO files read: every header variant over every directory, with and
\* without bytes after it, and the files cut inside the header
ReaderFiles ==
    {PackLE16(hv[1]) \o PackLE16(hv[2]) \o PackLE16(Len(pairs) + hv[3])
        \o Directory(pairs) \o t :
        hv \in HeaderVariants,
        pairs \in {l \in DirLists : Len(l) >= 1},
        t \in Trailing}
    \cup {PackLE16(hv[1]) \o PackLE16(hv[2]) \o PackLE16(hv[3]) \o t :
            hv \in {v \in HeaderVariants : v[3] >= 0}, t \in Trailing}
    \cup Prefixes(pack_header(1))

InitReader ==
    /\ ico_file \in {[exists |-> TRUE, bytes |-> f] : f \in ReaderFiles}
    /\ png_paths = <<>>
    /\ bpc = "idle"
    /\ bidx = 0
    /\ entries = <<>>
    /\ offset = 0
    /\ payload_blob = <<>>
    /\ build_error = ""
    /\ rpc = "idle"
    /\ data = <<>>
    /\ sizes = <<>>
    /\ read_error = ""

NextReader == ParseIco

ReaderInit == InitReader /\ IdlePaeth /\ IdlePng /\ IdleVal /\ IdleDim /\ IdleFile

SpecReader == ReaderInit /\ [][NextReader]_vars

\* the header fields of the file read, and the end of its directory region
Reserved == UnpackLE16(data, 0)
Kind == UnpackLE16(data, 2)
Count == UnpackLE16(data, 4)
DirectoryEnd == 6 + 16 * Count

\* the resolved width and height of directory entry k (k = 1..Count)
EntryWidth(k) == resolve_dimension(data[EntryPos(k) + 1])
EntryHeight(k) == resolve_dimension(data[EntryPos(k) + 2])

\* the file read is one parse_ico_sizes has to reject
Rejected ==
    IF Len(data) < 6 THEN TRUE
    ELSE IF Reserved # 0 \/ Kind # 1 THEN TRUE
    ELSE IF Len(data) < DirectoryEnd THEN TRUE
    ELSE \E k \in 1..Count : EntryWidth(k) # EntryHeight(k)

\* C14: ICO container reader validation.  parse_ico_sizes fails when the
\* data is shorter than 6 bytes, when reserved # 0 or type # 1, when the data
\* is shorter than 6 + 16 * count, or when some directory entry has resolved
\* width # resolved height; otherwise it returns count sizes, the resolved
\* width of each entry in directory order, each in 1..256, and the outcome
\* is the one it has on the directory region alone, the bytes after it cut
\* off.
C14_ReaderValidation ==
    rpc # "idle" =>
        /\ (rpc = "failed") <=> Rejected
        /\ (rpc = "failed") => sizes = <<>> /\ read_error # ""
        /\ (rpc = "done") =>
              /\ Len(sizes) = Count
              /\ \A k \in 1..Count :
                    /\ sizes[k] = EntryWidth(k)
                    /\ sizes[k] = EntryHeight(k)
                    /\ sizes[k] \in 1..256
              /\ parse_ico_sizes(Slice(data, 0, DirectoryEnd)) =
                    [ok |-> TRUE, sizes |-> sizes, error |-> ""]

\* C14 witness: a file of two square entries, the first with bytes 0, 0, and
\* with bytes after its directory was read and gave the sizes 256, 16.
C14_Witness ==
    /\ rpc = "done"
    /\ Count = 2
    /\ Len(data) > DirectoryEnd
    /\ data[EntryPos(1) + 1] = 0
    /\ sizes = <<256, 16>>


----------------------------------------------------------------------------
(* SpecFile: decode_png_rgba_alpha_bounds on PNG files read from disk *)

\* the CRC field of a chunk; the decoder skips it
Crc == <<0, 0, 0, 0>>

\* a chunk whose length field holds n: length, type, body, CRC
ChunkDeclaring(n, type, body) == PackBE32(n) \o type \o body \o Crc

\* a chunk whose length field is the length of its body
Chunk(type, body) == ChunkDeclaring(Len(body), type, body)

\* the 13 bytes of an IHDR payload
IhdrBody(w, h, depth, ct, comp, filt, interlace) ==
    PackBE32(w) \o PackBE32(h) \o <<depth, ct, comp, filt, interlace>>

\* a deflate stored block: the header byte, LEN, NLEN, the bytes
StoredBlock(final, bytes) ==
    <<final>> \o PackLE16(Len(bytes)) \o PackLE16(65535 - Len(bytes)) \o bytes

\* the zlib stream that stores the bytes in one block
ZlibStored(bytes) == <<120, 1>> \o StoredBlock(1, bytes) \o adler32(bytes)

\* an ancillary chunk type, b"tEXt"
TEXT == <<116, 69, 88, 116>>

\* a 2x1 GrayscaleAlpha image: its header, its scanline, its zlib stream
GoodHeader == Chunk(IHDR, IhdrBody(2, 1, 8, 4, 0, 0, 0))
GoodScanline == <<0, 200, 255, 200, 0>>
GoodStream == ZlibStored(GoodScanline)
GoodFile == PNG_SIGNATURE \o GoodHeader \o Chunk(IDAT, GoodStream) \o Chunk(IEND, <<>>)

\* a zlib stream that inflates to one byte more than the good image has
LongStream == ZlibStored(GoodScanline \o <<0>>)

\* the inflated stream of a 1x1 image of the colour type: a scanline of the
\* right length where the colour type has one, and a stream one byte long
ScanlinesOf(ct) ==
    {<<0>>}
    \cup (IF ct \in ColorTypes
          THEN {<<0>> \o [i \in 1..channels_by_color_type(ct) |-> 255]}
          ELSE {<<0, 255>>})

\* 1x1 images over every combination of bit depth, colour type and
\* compression, filter and interlace methods
HeaderFiles ==
    UNION {{PNG_SIGNATURE \o Chunk(IHDR, IhdrBody(1, 1, h[1], h[2], h[3], h[4], h[5]))
               \o Chunk(IDAT, ZlibStored(line)) \o Chunk(IEND, <<>>)
               : line \in ScanlinesOf(h[2])}
           : h \in {8, 16} \X {0, 2, 3, 4, 6} \X {0, 1} \X {0, 1} \X {0, 1}}

\* the good image with its chunks arranged in other ways: the stream split
\* over two IDAT chunks at every point, with and without a chunk between
\* them; chunks after IEND; no IEND; no IDAT; no IHDR; IDAT before IHDR
ChunkFiles ==
    UNION {{PNG_SIGNATURE \o GoodHeader
               \o Chunk(IDAT, SubSeq(GoodStream, 1, k)) \o between
               \o Chunk(IDAT, SubSeq(GoodStream, k + 1, Len(GoodStream)))
               \o Chunk(IEND, <<>>)
               : between \in {<<>>, Chunk(TEXT, <<65, 66>>)}}
           : k \in 0..Len(GoodStream)}
    \cup {GoodFile \o Chunk(IDAT, <<9, 9>>),
          GoodFile \o Chunk(IHDR, IhdrBody(2, 1, 16, 3, 1, 0, 0)),
          GoodFile \o Chunk(IHDR, <<1, 2, 3>>),
          PNG_SIGNATURE \o GoodHeader \o Chunk(IDAT, GoodStream),
          PNG_SIGNATURE \o GoodHeader \o Chunk(IEND, <<>>),
          PNG_SIGNATURE \o Chunk(IDAT, GoodStream) \o Chunk(IEND, <<>>),
          PNG_SIGNATURE \o Chunk(IDAT, GoodStream) \o GoodHeader \o Chunk(IEND, <<>>),
          PNG_SIGNATURE \o Chunk(IEND, <<>>) \o GoodHeader \o Chunk(IDAT, GoodStream),
          PNG_SIGNATURE \o GoodHeader
              \o Chunk(IDAT, SubSeq(LongStream, 1, 4)) \o Chunk(TEXT, <<65>>)
              \o Chunk(IDAT, SubSeq(LongStream, 5, Len(LongStream)))
              \o Chunk(IEND, <<>>) \o Chunk(IDAT, <<9, 9>>),
          PNG_SIGNATURE}

\* files whose chunk lengths do not fit: a length field that runs past the
\* end of the data, a length field that swallows the next chunk, an IHDR
\* payload of fewer than 13 bytes
LengthFiles ==
    {PNG_SIGNATURE \o GoodHeader \o ChunkDeclaring(Len(GoodStream) + d, IDAT, GoodStream)
        : d \in {1, 4, 5, 100}}
    \cup {PNG_SIGNATURE \o GoodHeader
             \o ChunkDeclaring(Len(GoodStream) + d, IDAT, GoodStream) \o Chunk(IEND, <<>>)
             : d \in {1, 8, 12, 100}}
    \cup {PNG_SIGNATURE \o Chunk(IHDR, SubSeq(IhdrBody(2, 1, 8, 4, 0, 0, 0), 1, n))
             \o Chunk(IDAT, GoodStream) \o Chunk(IEND, <<>>)
             : n \in {0, 5, 8, 12}}
    \cup {PNG_SIGNATURE \o ChunkDeclaring(13 + d, IHDR, IhdrBody(2, 1, 8, 4, 0, 0, 0))
             \o Chunk(IDAT, GoodStream) \o Chunk(IEND, <<>>)
             : d \in {1, 12, 100}}

\* the good image with other IDAT data: a transparent image, an unsupported
\* filter type, a stream of two blocks, bytes after the stream, and data
\* zlib rejects
StreamFiles ==
    {PNG_SIGNATURE \o GoodHeader \o Chunk(IDAT, z) \o Chunk(IEND, <<>>) :
        z \in {ZlibStored(<<0, 200, 0, 200, 0>>),
               ZlibStored(<<7, 200, 255, 200, 0>>),
               ZlibStored(<<1, 200, 255, 200, 0>>),
               ZlibStored(<<>>),
               ZlibStored(GoodScanline \o <<0>>),
               <<120, 1>> \o StoredBlock(0, <<0, 200>>) \o StoredBlock(1, <<255, 200, 0>>)
                   \o adler32(GoodScanline),
               <<120, 1>> \o StoredBlock(0, GoodScanline) \o adler32(GoodScanline),
               <<120, 156>> \o StoredBlock(1, GoodScanline) \o adler32(GoodScanline),
               GoodStream \o <<9, 9, 9>>,
               <<120, 1>> \o StoredBlock(1, GoodScanline) \o <<0, 0, 0, 0>>,
               <<120, 1>> \o <<1, 5, 0, 0, 0>> \o GoodScanline \o adler32(GoodScanline),
               <<120, 1, 7>> \o GoodScanline,
               <<120, 2>> \o StoredBlock(1, GoodScanline) \o adler32(GoodScanline),
               <<120, 32>> \o StoredBlock(1, GoodScanline) \o adler32(GoodScanline),
               <<119, 1>> \o StoredBlock(1, GoodScanline) \o adler32(GoodScanline),
               <<136, 28>> \o StoredBlock(1, GoodScanline) \o adler32(GoodScanline),
               <<>>}}

\* files that are cut short or do not begin with the signature
CutFiles ==
    Prefixes(GoodFile)
    \cup {<<0>> \o Tail(GoodFile), PNG_SIGNATURE \o <<0, 0, 0>>}

DecoderFiles == HeaderFiles \cup ChunkFiles \cup LengthFiles \cup StreamFiles \cup CutFiles

InitFile ==
    /\ png_pc = "open"
    /\ png_data \in DecoderFiles
    /\ cursor = 0
    /\ ihdr_seen = FALSE
    /\ bit_depth = 0
    /\ idat_chunks = <<>>
    /\ width = 0
    /\ height = 0
    /\ color_type = 0
    /\ payload = <<>>
    /\ pos = 0
    /\ rows = <<>>
    /\ prev_row = <<>>
    /\ bbox = NoBox
    /\ png_result = NoResult
    /\ png_error = ""

NextFile ==
    \/ ReadSignature
    \/ ReadChunk
    \/ ChunksEnd
    \/ CheckHeader
    \/ Inflate
    \/ DecodeCheckSize
    \/ DecodeRow
    \/ ScanAlpha
    \/ CoverageResult

FileInit == InitFile /\ IdleIco /\ IdlePaeth /\ IdleVal /\ IdleDim

SpecFile == FileInit /\ [][NextFile]_vars

----------------------------------------------------------------------------
(* Properties of decode_png_rgba_alpha_bounds on files *)

RECURSIVE ChunkList(_, _)
\* The chunks of a file from byte c (0-based) on, up to and including the
\* first IEND: type, declared length, and the body the data holds for it
\* (shorter than declared when the data ends before the body does).
ChunkList(bytes, c) ==
    IF c + 8 > Len(bytes) THEN <<>>
    ELSE LET n == UnpackBE32(bytes, c)
             ch == [type |-> Slice(bytes, c + 4, c + 8),
                    declared |-> n,
                    body |-> Slice(bytes, c + 8, c + 8 + n)]
         IN  IF ch.type = IEND THEN <<ch>>
             ELSE <<ch>> \o ChunkList(bytes, c + 12 + n)

\* the file begins with the signature; its chunks; its IHDR chunks
Signed == Len(png_data) >= 8 /\ Slice(png_data, 0, 8) = PNG_SIGNATURE
FileChunks == ChunkList(png_data, 8)
IhdrChunks == SelectSeq(FileChunks, LAMBDA ch : ch.type = IHDR)

\* the file has an IHDR chunk with its 13 bytes; the fields of the first one
HasIhdr == IhdrChunks # <<>> /\ Len(IhdrChunks[1].body) >= 13
IhdrField(k) == IhdrChunks[1].body[k]
IhdrWidth == UnpackBE32(IhdrChunks[1].body, 0)
IhdrHeight == UnpackBE32(IhdrChunks[1].body, 4)

BadMethods == IhdrField(11) # 0 \/ IhdrField(12) # 0 \/ IhdrField(13) # 0
BadDepth == IhdrField(9) # 8
BadColorType == IhdrField(10) \notin {0, 2, 4, 6}

RECURSIVE IdatBytes(_)
\* the bodies of the IDAT chunks of a chunk list, one after the other in the
\* order of the list
IdatBytes(chunks) ==
    IF chunks = <<>> THEN <<>>
    ELSE (IF Head(chunks).type = IDAT THEN Head(chunks).body ELSE <<>>)
         \o IdatBytes(Tail(chunks))

\* what the IDAT data of the file inflates to
Inflated == zlib_decompress(IdatBytes(FileChunks))

\* the length the header asks of the inflated data
ExpectedLength ==
    (IhdrWidth * channels_by_color_type(IhdrField(10)) + 1) * IhdrHeight

\* the decoder has ended: with a result, by fail(), or by an exception
Ended == png_pc \in {"done", "failed", "raised"}

\* the decoder ended by fail() with the message and returned nothing
RejectedWith(error) ==
    png_pc = "failed" /\ png_error = error /\ png_result = NoResult

\* C13: PNG full decoder rejections.  On a file with an IHDR chunk the
\* decoder ends by fail(), returning neither dimensions nor coverage, when a
\* compression, filter or interlace method is nonzero, when the bit depth is
\* not 8, when the colour type is not 0, 2, 4 or 6, and when the IDAT data
\* inflates to a length other than (width * channels + 1) * height; the data
\* inflated is the bodies of the IDAT chunks in file order, chunks after
\* IEND left out.
C13_Rejections ==
    (Ended /\ Signed /\ HasIhdr) =>
        IF BadMethods THEN RejectedWith("Unsupported PNG encoding options")
        ELSE IF BadDepth THEN RejectedWith("Unsupported PNG bit depth")
        ELSE IF BadColorType THEN RejectedWith("Unsupported PNG color type")
        ELSE Inflated.ok =>
                /\ png_pc # "raised"
                /\ payload = Inflated.out
                /\ Len(Inflated.out) # ExpectedLength =>
                      RejectedWith("Unexpected decompressed PNG size")

\* C13 witness: a file whose stream is split over two IDAT chunks with a
\* chunk between them and an IDAT chunk after IEND was rejected because the
\* stream inflates to 6 bytes where the 2x1 GrayscaleAlpha header asks for 5.
C13_Witness ==
    /\ RejectedWith("Unexpected decompressed PNG size")
    /\ Len(idat_chunks) = 2
    /\ Len(FileChunks) = 5
    /\ cursor < Len(png_data)
    /\ Len(payload) = 6
    /\ ExpectedLength = 5

\* a chunk the decoder read before it ended declares more bytes than the
\* data holds: k is its place in the file
ReadTruncated(k) ==
    /\ k <= Len(FileChunks)
    /\ Len(FileChunks[k].body) < FileChunks[k].declared
    /\ \A j \in 1..(k - 1) :
          FileChunks[j].type = IHDR =>
              /\ Len(FileChunks[j].body) >= 13
              /\ \A f \in 11..13 : FileChunks[j].body[f] = 0

\* the first IHDR chunk has fewer than 13 bytes
ShortIhdr == IhdrChunks # <<>> /\ Len(IhdrChunks[1].body) < 13

\* C15: PNG full decoder totality.  The decoder ends with a decoded image or
\* by fail(), never by an exception; on a file with a chunk whose declared
\* length runs past the end of the data, or whose IHDR payload has fewer than
\* 13 bytes, it ends by fail().
C15_Totality ==
    /\ png_pc # "raised"
    /\ (Ended /\ Signed /\ (ShortIhdr \/ \E k \in 1..Len(FileChunks) : ReadTruncated(k))) =>
          png_pc = "failed"

=============================================================================
